---- MODULE Spec2Model ----
(***************************************************************************)
(* A model of two rules of eslint-plugin-jsdoc:                            *)
(*   - require-jsdoc  (src/unnamed/part_000): option defaulting, the       *)
(*     listener object handed to the host, checkJsDoc, the effective line  *)
(*     count and the fixer;                                                *)
(*   - no-bad-blocks  (src/src/rules/noBadBlocks.js).                      *)
(* Text is a sequence of one-character strings.  A JavaScript value whose  *)
(* type varies at run time is a record tagged with its type.               *)
(***************************************************************************)
EXTENDS Integers, Sequences, FiniteSets, TLC

VARIABLES
    options,      \* context.options of the require-jsdoc rule: <<>> or <<object>>
    settings,     \* getSettings(context): a settings record or JsFalse
    opts,         \* the result of getOptions(context), once create() ran
    listeners,    \* the keys of the object create() returns
    phase,        \* position of the run
    visited,      \* number of nodes the host has entered in this pass
    cur,          \* the node the host is at
    pending,      \* listener keys the host still has to call for cur
    calls,        \* the checkJsDoc invocations made for cur
    findings,     \* context.report calls of the pass, in order
    lines,        \* sourceCode.lines
    comments,     \* sourceCode.getAllComments()
    lineCount,    \* last result of getLinesCountInFunction
    tokens,       \* the token stream the fixer walks
    baseNode,     \* the fixer's baseNode: an index into tokens
    edit,         \* the edit the fixer returned
    commentTexts, \* no-bad-blocks: the text of every comment of the file
    ignore,       \* no-bad-blocks: the effective ignore list
    reports,      \* no-bad-blocks: the reports of the last run
    fixedComment  \* no-bad-blocks: the comment whose fix the host applied

vars == <<options, settings, opts, listeners, phase, visited, cur, pending,
          calls, findings, lines, comments, lineCount, tokens, baseNode, edit,
          commentTexts, ignore, reports, fixedComment>>

ruleVars == <<options, settings, opts, listeners, visited, cur, pending, calls, findings>>
sourceVars == <<lines, comments>>
fixVars == <<tokens, baseNode, edit>>
blockVars == <<commentTexts, ignore, reports, fixedComment>>

----------------------------------------------------------------------------
(* JavaScript values *)

JsUndefined == [type |-> "undefined"]
JsNull == [type |-> "null"]
JsBool(b) == [type |-> "boolean", value |-> b]
JsNum(n) == [type |-> "number", value |-> n]
JsObj(o) == [type |-> "object", value |-> o]
JsFalse == JsBool(FALSE)

\* ToBoolean
Truthy(v) ==
    CASE v.type = "undefined" -> FALSE
      [] v.type = "null" -> FALSE
      [] v.type = "boolean" -> v.value
      [] v.type = "number" -> v.value # 0
      [] v.type = "object" -> TRUE

\* a ?? b
Nullish(v, d) == IF v.type \in {"undefined", "null"} THEN d ELSE v

\* obj?.key on a tagged value whose object is a function from keys to tagged values
OptChain(v, key) ==
    IF v.type = "object" /\ key \in DOMAIN v.value THEN v.value[key] ELSE JsUndefined

\* ToNumber, for the relational operators
ToNumber(v) ==
    CASE v.type = "null" -> 0
      [] v.type = "number" -> v.value
      [] v.type = "boolean" -> IF v.value THEN 1 ELSE 0

None == [type |-> "none"]

----------------------------------------------------------------------------
(* Text *)

Whitespace == {" ", "\t"}

IsBlank(s) == \A i \in 1..Len(s) : s[i] \in Whitespace

\* String.prototype.slice(from) and slice(from, to) for 0 <= from, to
SliceFrom(s, from) == SubSeq(s, from + 1, Len(s))
Slice(s, from, to) == SubSeq(s, from + 1, IF to > Len(s) THEN Len(s) ELSE to)

\* s.slice(0, -1)
DropLast(s) == IF Len(s) = 0 THEN s ELSE SubSeq(s, 1, Len(s) - 1)

RECURSIVE Repeat(_, _)
Repeat(c, n) == IF n <= 0 THEN <<>> ELSE <<c>> \o Repeat(c, n - 1)

RECURSIVE Seqs(_, _)
\* all sequences over S of length at most n
Seqs(S, n) ==
    IF n = 0 THEN {<<>>}
    ELSE LET shorter == Seqs(S, n - 1)
         IN shorter \cup {Append(s, x) : s \in {t \in shorter : Len(t) = n - 1}, x \in S}

----------------------------------------------------------------------------
(* require-jsdoc: the option schema and getOptions *)

RequireKeys ==
    {"ArrowFunctionExpression", "ClassDeclaration", "ClassExpression",
     "FunctionDeclaration", "FunctionExpression", "MethodDefinition"}

PublicOnlyKeys == {"ancestorsOnly", "cjs", "esm", "window"}

BoolProp(d) == [default |-> JsBool(d), type |-> "boolean"]

OPTIONS_SCHEMA ==
    [properties |->
        [checkConstructors |-> BoolProp(TRUE),
         checkGetters |-> BoolProp(TRUE),
         checkSetters |-> BoolProp(TRUE),
         enableFixer |-> BoolProp(TRUE),
         exemptEmptyConstructors |-> BoolProp(FALSE),
         exemptEmptyFunctions |-> BoolProp(FALSE),
         minLines |-> [default |-> JsNum(0), type |-> "integer"],
         publicOnly |->
            [oneOf |->
                << BoolProp(FALSE),
                   [default |-> JsObj(<<>>),
                    properties |-> [k \in PublicOnlyKeys |-> [type |-> "boolean"]]] >>],
         require |->
            [default |-> JsObj(<<>>),
             properties |->
                [ArrowFunctionExpression |-> BoolProp(FALSE),
                 ClassDeclaration |-> BoolProp(FALSE),
                 ClassExpression |-> BoolProp(FALSE),
                 FunctionDeclaration |-> BoolProp(TRUE),
                 FunctionExpression |-> BoolProp(FALSE),
                 MethodDefinition |-> BoolProp(FALSE)]]]]

\* schemaNode.default, undefined when the schema states none
SchemaDefault(schemaNode) ==
    IF "default" \in DOMAIN schemaNode THEN schemaNode.default ELSE JsUndefined

\* _.has(context, `options[0][${option}][${key}]`)
HasPath(o, option, key) ==
    /\ Len(o) > 0
    /\ option \in DOMAIN o[1]
    /\ o[1][option].type = "object"
    /\ key \in DOMAIN o[1][option].value

getOption(o, baseObject, option, key) ==
    IF ~ HasPath(o, option, key)
    THEN SchemaDefault(baseObject.properties[key])
    ELSE JsBool(o[1][option].value[key])

\* context.options[0] || {}
FirstOption(o) == IF Len(o) = 0 THEN <<>> ELSE o[1]

\* a destructuring default: the default applies when the key is absent
Destructure(obj, key, dflt) == IF key \in DOMAIN obj THEN obj[key] ELSE dflt

getOptions(o) ==
    LET user == FirstOption(o)
        publicOnly == Destructure(user, "publicOnly", JsUndefined)
        publicBase == OPTIONS_SCHEMA.properties.publicOnly.oneOf[2]
        requireBase == OPTIONS_SCHEMA.properties.require
    IN  [contexts |-> Destructure(user, "contexts", <<>>),
         enableFixer |-> Destructure(user, "enableFixer", TRUE),
         exemptEmptyConstructors |-> Destructure(user, "exemptEmptyConstructors", TRUE),
         exemptEmptyFunctions |-> Destructure(user, "exemptEmptyFunctions", FALSE),
         minLines |-> Destructure(user, "minLines", 0),
         publicOnly |->
            IF ~ Truthy(publicOnly) THEN JsFalse
            ELSE JsObj([prop \in DOMAIN publicBase.properties |->
                            getOption(o, publicBase, "publicOnly", prop)]),
         require |->
            [prop \in DOMAIN requireBase.properties |->
                getOption(o, requireBase, "require", prop)]]

----------------------------------------------------------------------------
(* require-jsdoc: the effective line count *)

Max(S) == CHOOSE x \in S : \A y \in S : y <= x

\* the lines some comment spans
CommentLines(cs) ==
    UNION {cs[i].loc.start.line .. cs[i].loc.end.line : i \in 1..Len(cs)}

\* map.set(line, comment) for every line of every comment: a later comment
\* replaces an earlier one on the lines they share
getCommentLineNumbers(cs) ==
    [l \in CommentLines(cs) |->
        cs[Max({i \in 1..Len(cs) : l \in cs[i].loc.start.line .. cs[i].loc.end.line})]]

\* a test that forgets what follows the comment on its last line
isFullLineComment_FirstOnly(line, lineNumber, comment) ==
    \/ comment.loc.start.line < lineNumber
    \/ /\ comment.loc.start.line = lineNumber
       /\ IsBlank(Slice(line, 0, comment.loc.start.column))

isFullLineComment(line, lineNumber, comment) ==
    LET start == comment.loc.start
        end == comment.loc.end
        isFirstTokenOnLine ==
            start.line = lineNumber /\ IsBlank(Slice(line, 0, start.column))
        isLastTokenOnLine ==
            end.line = lineNumber /\ IsBlank(SliceFrom(line, end.column))
    IN  /\ (start.line < lineNumber \/ isFirstTokenOnLine)
        /\ (end.line > lineNumber \/ isLastTokenOnLine)

isIIFE(node) ==
    /\ node.type \in {"FunctionExpression", "ArrowFunctionExpression"}
    /\ node.parent.type # "none"
    /\ node.parent.type = "CallExpression"
    /\ node.parent.calleeIsNode

isEmbedded(node) ==
    IF node.parent.type = "none" THEN FALSE
    ELSE IF ~ node.parent.valueIsNode THEN FALSE
    ELSE IF node.parent.type = "MethodDefinition" THEN TRUE
    ELSE IF node.parent.type = "Property"
         THEN node.parent.method \/ node.parent.kind = "get" \/ node.parent.kind = "set"
    ELSE FALSE

\* the node whose lines are counted: the enclosing method or property of an
\* embedded function, which is then no function and has no callee role itself
CountedNode(funcNode) ==
    IF isEmbedded(funcNode)
    THEN [type |-> funcNode.parent.type, loc |-> funcNode.parent.loc,
          parent |-> [type |-> IF funcNode.parent.type = "MethodDefinition"
                               THEN "ClassBody" ELSE "ObjectExpression",
                      calleeIsNode |-> FALSE]]
    ELSE funcNode

RECURSIVE CountFrom(_, _, _, _, _, _)
\* the for loop of getLinesCountInFunction from linePos (zero-based) on
CountFrom(linePos, endLine, ls, commentLineNumbers, skipComments, skipBlankLines) ==
    IF ~ (linePos < endLine) THEN 0
    ELSE LET line == ls[linePos + 1]
             rest == CountFrom(linePos + 1, endLine, ls, commentLineNumbers,
                               skipComments, skipBlankLines)
         IN  IF /\ skipComments
                /\ (linePos + 1) \in DOMAIN commentLineNumbers
                /\ isFullLineComment(line, linePos + 1, commentLineNumbers[linePos + 1])
             THEN rest
             ELSE IF skipBlankLines /\ IsBlank(line) THEN rest
             ELSE rest + 1

getLinesCountInFunction(funcNode, ls, commentLineNumbers, skipComments, skipBlankLines) ==
    LET node == CountedNode(funcNode)
    IN  IF isIIFE(node) THEN JsNull
        ELSE JsNum(CountFrom(node.loc.start.line - 1, node.loc.end.line, ls,
                             commentLineNumbers, skipComments, skipBlankLines))

----------------------------------------------------------------------------
(* Source files for the line count *)

MaxLines == 2
MaxComments == 2
\* a line holds white space, a comment and code side by side
CellKinds == {" ", "*", "x"}
LineWidth == Cardinality(CellKinds)

LineLoc(s, e) == [start |-> [line |-> s], end |-> [line |-> e]]

\* the comment over the cells a .. b-1 of a file whose lines are LineWidth wide
SpanComment(span) ==
    [loc |-> [start |-> [line |-> (span[1] \div LineWidth) + 1,
                         column |-> span[1] % LineWidth],
              end |-> [line |-> ((span[2] - 1) \div LineWidth) + 1,
                       column |-> ((span[2] - 1) % LineWidth) + 1]]]

RECURSIVE SpansFrom(_, _, _)
\* the sequences of at most k disjoint spans, in document order, within from .. to
SpansFrom(from, to, k) ==
    IF k = 0 THEN {<<>>}
    ELSE {<<>>} \cup
         UNION {{<<p>> \o rest : rest \in SpansFrom(p[2], to, k - 1)} :
                    p \in {q \in (from..to) \X (from..to) : q[1] < q[2]}}

\* at most MaxComments disjoint comments, in document order, over n lines
CommentSpans(n) == SpansFrom(0, n * LineWidth, MaxComments)

Covered(cs) == UNION {cs[i][1] .. (cs[i][2] - 1) : i \in 1..Len(cs)}

\* the file of n lines with the comments cs and the text t outside them: comment
\* text where the spans lie, code or white space elsewhere
SourceWith(n, cs, t) ==
    LET cov == Covered(cs)
    IN  [lines |-> [l \in 1..n |->
                      [c \in 1..LineWidth |->
                          LET k == (l - 1) * LineWidth + (c - 1)
                          IN IF k \in cov THEN "*" ELSE t[k]]],
         comments |-> [i \in 1..Len(cs) |-> SpanComment(cs[i])]]

\* the texts a file of n lines can hold outside the comments cs
FreeText(n, cs) == [(0..(n * LineWidth - 1)) \ Covered(cs) -> {" ", "x"}]

\* function f() { / // comment / (empty) / return 1; / }
ExampleSource ==
    [lines |-> << <<"f", "(", ")", " ", "{">>,
                  <<" ", " ", "/", "/", "c">>,
                  <<>>,
                  <<" ", " ", "r", ";">>,
                  <<"}">> >>,
     comments |-> << [loc |-> [start |-> [line |-> 2, column |-> 2],
                               end |-> [line |-> 2, column |-> 5]]] >>]

\* the function nodes whose lines are counted: a plain function, an immediately
\* invoked one, and the value of a method that starts on line ps <= s
FunctionNode(s, e, parent) ==
    [type |-> "FunctionExpression", loc |-> LineLoc(s, e), parent |-> parent]

CountNodes(n) ==
    LET ranges == {q \in (1..n) \X (1..n) \X (1..n) : q[1] <= q[2] /\ q[2] <= q[3]}
    IN  {FunctionNode(r[2], r[3],
            [type |-> "VariableDeclarator", valueIsNode |-> FALSE, calleeIsNode |-> FALSE,
             method |-> FALSE, kind |-> "const", loc |-> LineLoc(r[2], r[3])]) :
                r \in {q \in ranges : q[1] = q[2]}}
        \cup
        {FunctionNode(1, n,
            [type |-> "CallExpression", valueIsNode |-> FALSE, calleeIsNode |-> TRUE,
             method |-> FALSE, kind |-> "none", loc |-> LineLoc(1, n)])}
        \cup
        {FunctionNode(r[2], r[3],
            [type |-> "MethodDefinition", valueIsNode |-> TRUE, calleeIsNode |-> FALSE,
             method |-> FALSE, kind |-> "method", loc |-> LineLoc(r[1], r[3])]) :
                r \in ranges}

----------------------------------------------------------------------------
(* The variables a specification leaves alone *)

IdleRule ==
    /\ options = <<>>
    /\ settings = JsFalse
    /\ opts = None
    /\ listeners = {}
    /\ visited = 0
    /\ cur = None
    /\ pending = <<>>
    /\ calls = <<>>
    /\ findings = <<>>

IdleSource == lines = <<>> /\ comments = <<>> /\ lineCount = None

IdleFix == tokens = <<>> /\ baseNode = 0 /\ edit = None

IdleBlocks == commentTexts = <<>> /\ ignore = {} /\ reports = <<>> /\ fixedComment = 0

----------------------------------------------------------------------------
(* getLinesCountInFunction on its own *)

InitLines ==
    /\ \/ lines = ExampleSource.lines /\ comments = ExampleSource.comments
       \/ \E n \in 1..MaxLines : \E cs \in CommentSpans(n) : \E t \in FreeText(n, cs) :
            /\ lines = SourceWith(n, cs, t).lines
            /\ comments = SourceWith(n, cs, t).comments
    /\ phase = "source"
    /\ options = <<>> /\ settings = JsFalse /\ opts = None /\ listeners = {}
    /\ visited = 0 /\ cur = None /\ pending = <<>> /\ calls = <<>> /\ findings = <<>>
    /\ lineCount = None
    /\ IdleFix
    /\ IdleBlocks

\* one call getLinesCountInFunction(funcNode, sourceCode.lines, commentLineNumbers),
\* as checkJsDoc makes it: the fourth argument is left to its defaults
CountLines(funcNode) ==
    /\ phase = "source"
    /\ cur' = funcNode
    /\ lineCount' = getLinesCountInFunction(funcNode, lines,
                        getCommentLineNumbers(comments), TRUE, TRUE)
    /\ phase' = "counted"
    /\ UNCHANGED <<options, settings, opts, listeners, visited, pending, calls, findings>>
    /\ UNCHANGED <<sourceVars, fixVars, blockVars>>

NextLines == \E funcNode \in CountNodes(Len(lines)) : CountLines(funcNode)

SpecLines == InitLines /\ [][NextLines]_vars

\* a comment covers line l: it starts before the line or on it after white space
\* only, and ends after the line or on it before white space only
Covers(comment, l) ==
    /\ \/ comment.loc.start.line < l
       \/ /\ comment.loc.start.line = l
          /\ IsBlank(SubSeq(lines[l], 1, comment.loc.start.column))
    /\ \/ comment.loc.end.line > l
       \/ /\ comment.loc.end.line = l
          /\ IsBlank(SubSeq(lines[l], comment.loc.end.column + 1, Len(lines[l])))

EffectiveLines(node) ==
    {l \in node.loc.start.line .. node.loc.end.line :
        /\ ~ IsBlank(lines[l])
        /\ ~ \E i \in 1..Len(comments) : Covers(comments[i], l)}

\* C9: for a node that is not immediately invoked, the count (taken with
\* skipComments and skipBlankLines at their default, true) is the number of lines
\* of the counted node's range that are neither blank nor covered by a comment;
\* it is 3 for the five example lines.
C9_LineCount ==
    (phase = "counted" /\ ~ isIIFE(CountedNode(cur))) =>
        /\ lineCount = JsNum(Cardinality(EffectiveLines(CountedNode(cur))))
        /\ (lines = ExampleSource.lines /\ cur.loc = LineLoc(1, 5) /\ ~ isEmbedded(cur))
              => lineCount = JsNum(3)

C9_Witness ==
    /\ phase = "counted"
    /\ lines = ExampleSource.lines
    /\ cur.loc = LineLoc(1, 5)
    /\ cur.parent.type = "VariableDeclarator"
    /\ lineCount = JsNum(3)

----------------------------------------------------------------------------
(* require-jsdoc: collaborators outside src/, taken at their contract *)

\* getJSDocComment(sourceCode, node, settings): the attached block, if any
getJSDocComment(node) == IF node.hasJsdoc THEN JsObj(<<>>) ELSE JsNull

\* jsdocUtils.isConstructor(node)
isConstructor(node) ==
    node.parent.type = "MethodDefinition" /\ node.parent.kind = "constructor"

\* context.options[0]?.[prop] ?? the schema default
hasSchemaOption(o, prop) ==
    Destructure(FirstOption(o), prop, OPTIONS_SCHEMA.properties[prop].default.value)

\* jsdocUtils.exemptSpeciaMethods({tags: []}, node, context, [OPTIONS_SCHEMA])
exemptSpeciaMethods(node, o) ==
    \/ ~ hasSchemaOption(o, "checkConstructors") /\ isConstructor(node)
    \/ ~ hasSchemaOption(o, "checkGetters") /\ node.parent.kind = "get"
    \/ ~ hasSchemaOption(o, "checkSetters") /\ node.parent.kind = "set"

\* jsdocUtils.getFunctionParameterNames(node).length
getFunctionParameterNames(node) == node.params

\* jsdocUtils.hasReturnValue(node, context)
hasReturnValue(node) == node.returns

\* exportParser.isUncommentedExport(node, sourceCode, opt, settings)
isUncommentedExport(node, opt) ==
    \/ node.exportedVia = "esm" /\ opt.esm
    \/ node.exportedVia = "cjs" /\ opt.initModuleExports
    \/ node.exportedVia = "window" /\ opt.initWindow

\* jsdocUtils.enforcedContexts(context, defaultContexts)
enforcedContexts(o, defaultContexts) ==
    Destructure(FirstOption(o), "contexts", defaultContexts)

\* the key a contexts entry is registered or looked up under
ContextOf(entry) ==
    IF entry.type = "object"
    THEN (IF "context" \in DOMAIN entry.value THEN entry.value.context ELSE "undefined")
    ELSE entry.value

\* jsdocUtils.getContextObject(contexts, checkJsdoc): the keys of the object
getContextObject(contexts) == {ContextOf(contexts[i]) : i \in 1..Len(contexts)}

FunctionTypes == {"FunctionDeclaration", "FunctionExpression", "ArrowFunctionExpression"}

\* the host calls a listener for every node its key selects
SelectorMatches(key, node) ==
    \/ key = node.type
    \/ key = ":function" /\ node.type \in FunctionTypes

\* the order in which the host calls the listeners of one node: the less specific
\* selector first
ListenerOrder ==
    <<":function", "ArrowFunctionExpression", "ClassDeclaration", "ClassExpression",
      "FunctionDeclaration", "FunctionExpression", "MethodDefinition">>

----------------------------------------------------------------------------
(* require-jsdoc: create() *)

BuiltIn ==
    {"ArrowFunctionExpression", "ClassDeclaration", "ClassExpression",
     "FunctionDeclaration", "FunctionExpression"}

\* the keys of {...getContextObject(...), ArrowFunctionExpression, ...}: a built-in
\* handler replaces the context handler of the same key
ListenerKeys(o) == getContextObject(enforcedContexts(o, <<>>)) \cup BuiltIn

\* a comparison in which null is never below anything
LessEq_NullNever(a, b) == a.type # "null" /\ b.type # "null" /\ ToNumber(a) <= ToNumber(b)

\* a <= b on values that may be null
LessEq(a, b) == ToNumber(a) <= ToNumber(b)

\* the resolver's answer is dropped
HasAttached_Dropped(node) == FALSE

\* the attached block makes checkJsDoc return at once
HasAttached(node) == Truthy(getJSDocComment(node))

ExemptEmpty(node, isFunctionContext) ==
    /\ \/ opts.exemptEmptyFunctions /\ Truthy(isFunctionContext)
       \/ opts.exemptEmptyConstructors /\ isConstructor(node)
    /\ getFunctionParameterNames(node) = 0
    /\ ~ hasReturnValue(node)

ExemptMinLines(node) ==
    /\ opts.minLines > 0
    /\ LessEq(getLinesCountInFunction(node, lines, getCommentLineNumbers(comments),
                                      TRUE, TRUE),
              JsNum(opts.minLines))

\* the cjs sub-option defaults to false
ExportOpt_CjsOff(publicOnly) ==
    [ancestorsOnly |-> Truthy(Nullish(OptChain(publicOnly, "ancestorsOnly"), JsBool(FALSE))),
     esm |-> Truthy(Nullish(OptChain(publicOnly, "esm"), JsBool(TRUE))),
     initModuleExports |-> Truthy(Nullish(OptChain(publicOnly, "cjs"), JsBool(FALSE))),
     initWindow |-> Truthy(Nullish(OptChain(publicOnly, "window"), JsBool(FALSE)))]

\* the options handed to the export resolver
ExportOpt(publicOnly) ==
    [ancestorsOnly |-> Truthy(Nullish(OptChain(publicOnly, "ancestorsOnly"), JsBool(FALSE))),
     esm |-> Truthy(Nullish(OptChain(publicOnly, "esm"), JsBool(TRUE))),
     initModuleExports |-> Truthy(Nullish(OptChain(publicOnly, "cjs"), JsBool(TRUE))),
     initWindow |-> Truthy(Nullish(OptChain(publicOnly, "window"), JsBool(FALSE)))]

Outcome(path, opt, exported) == [path |-> path, opt |-> opt, exported |-> exported]

\* one call of checkJsDoc: where it returned, and what it asked the export resolver
checkJsDoc(node, isFunctionContext) ==
    IF HasAttached(node) THEN Outcome("attached", None, FALSE)
    ELSE IF exemptSpeciaMethods(node, options) THEN Outcome("special", None, FALSE)
    ELSE IF ExemptEmpty(node, isFunctionContext) THEN Outcome("empty", None, FALSE)
    ELSE IF ExemptMinLines(node) THEN Outcome("minLines", None, FALSE)
    ELSE IF Truthy(opts.publicOnly)
         THEN LET opt == ExportOpt(opts.publicOnly)
                  exported == isUncommentedExport(node, opt)
              IN  Outcome(IF exported THEN "report" ELSE "private", opt, exported)
    ELSE Outcome("report", None, FALSE)

\* context.report({fix: enableFixer ? fix : null, loc, messageId, node})
Report(node) ==
    [node |-> visited, type |-> node.type, messageId |-> "missingJsDoc",
     fix |-> opts.enableFixer]

hasOption(prop) ==
    \/ Truthy(opts.require[prop])
    \/ \E i \in 1..Len(opts.contexts) : ContextOf(opts.contexts[i]) = prop

\* the position test without the comparison node === node.parent.value
ValuePosition_AnyRole(node) ==
    node.parent.type \in
        {"VariableDeclarator", "AssignmentExpression", "ExportDefaultDeclaration",
         "Property", "ObjectProperty", "ClassProperty"}

\* the position test of the ArrowFunctionExpression and FunctionExpression handlers
ValuePosition(node) ==
    \/ node.parent.type \in
          {"VariableDeclarator", "AssignmentExpression", "ExportDefaultDeclaration"}
    \/ /\ node.parent.type \in {"Property", "ObjectProperty", "ClassProperty"}
       /\ node.parent.valueIsNode

----------------------------------------------------------------------------
(* require-jsdoc: one pass over a file *)

MaxNodes == 2

\* create(context): without settings the rule registers nothing
Create ==
    /\ phase = "init"
    /\ phase' = "traversing"
    /\ opts' = IF Truthy(settings) THEN getOptions(options) ELSE None
    /\ listeners' = IF Truthy(settings) THEN ListenerKeys(options) ELSE {}
    /\ UNCHANGED <<options, settings, visited, cur, pending, calls, findings>>
    /\ UNCHANGED <<sourceVars, lineCount, fixVars, blockVars>>

\* the host reaches the next node of the file and queues the listeners it selects
EnterNode(node) ==
    /\ phase = "traversing"
    /\ pending = <<>>
    /\ visited < MaxNodes
    /\ visited' = visited + 1
    /\ cur' = node
    /\ calls' = <<>>
    /\ pending' = SelectSeq(ListenerOrder,
                    LAMBDA key : key \in listeners /\ SelectorMatches(key, node))
    /\ UNCHANGED <<options, settings, opts, listeners, phase, findings>>
    /\ UNCHANGED <<sourceVars, lineCount, fixVars, blockVars>>

\* the listener under key is due
Due(key) == phase = "traversing" /\ pending # <<>> /\ Head(pending) = key

\* the listener returns without calling checkJsDoc
Skip ==
    /\ pending' = Tail(pending)
    /\ UNCHANGED <<options, settings, opts, listeners, phase, visited, cur, calls, findings>>
    /\ UNCHANGED <<sourceVars, lineCount, fixVars, blockVars>>

\* the listener calls checkJsDoc(node, isFunctionContext) and returns
Check(node, isFunctionContext) ==
    LET outcome == checkJsDoc(node, isFunctionContext)
    IN  /\ pending' = Tail(pending)
        /\ calls' = Append(calls, outcome)
        /\ findings' = IF outcome.path = "report"
                       THEN Append(findings, Report(node))
                       ELSE findings
        /\ UNCHANGED <<options, settings, opts, listeners, phase, visited, cur>>
        /\ UNCHANGED <<sourceVars, lineCount, fixVars, blockVars>>

\* a handler that getContextObject registered and no built-in replaced: the host
\* calls checkJsDoc(node) itself
ContextHandler ==
    /\ \E key \in listeners \ BuiltIn : Due(key)
    /\ Check(cur, JsUndefined)

ArrowFunctionExpression ==
    /\ Due("ArrowFunctionExpression")
    /\ IF ~ hasOption("ArrowFunctionExpression") THEN Skip
       ELSE IF ValuePosition(cur) THEN Check(cur, JsBool(TRUE))
       ELSE Skip

ClassDeclaration ==
    /\ Due("ClassDeclaration")
    /\ IF ~ hasOption("ClassDeclaration") THEN Skip ELSE Check(cur, JsUndefined)

ClassExpression ==
    /\ Due("ClassExpression")
    /\ IF ~ hasOption("ClassExpression") THEN Skip ELSE Check(cur, JsUndefined)

FunctionDeclaration ==
    /\ Due("FunctionDeclaration")
    /\ IF ~ hasOption("FunctionDeclaration") THEN Skip ELSE Check(cur, JsBool(TRUE))

FunctionExpression ==
    /\ Due("FunctionExpression")
    /\ IF hasOption("MethodDefinition") /\ cur.parent.type = "MethodDefinition"
       THEN Check(cur, JsBool(TRUE))
       ELSE IF ~ hasOption("FunctionExpression") THEN Skip
       ELSE IF ValuePosition(cur) THEN Check(cur, JsBool(TRUE))
       ELSE Skip

\* the host has walked the whole file
Finish ==
    /\ phase = "traversing"
    /\ pending = <<>>
    /\ phase' = "done"
    /\ UNCHANGED ruleVars
    /\ UNCHANGED <<sourceVars, lineCount, fixVars, blockVars>>

----------------------------------------------------------------------------
(* Files and configurations the passes run on *)

Parent(type, valueIsNode, calleeIsNode, kind, loc) ==
    [type |-> type, valueIsNode |-> valueIsNode, calleeIsNode |-> calleeIsNode,
     method |-> FALSE, kind |-> kind, loc |-> loc]

\* where a function expression or an arrow function can stand
ExpressionParents(loc) ==
    {Parent(t, FALSE, FALSE, "none", loc) :
        t \in {"VariableDeclarator", "AssignmentExpression", "ExportDefaultDeclaration",
               "ReturnStatement"}}
    \cup {Parent(t, v, FALSE, "init", loc) :
            t \in {"Property", "ObjectProperty", "ClassProperty"}, v \in BOOLEAN}
    \cup {Parent("CallExpression", FALSE, c, "none", loc) : c \in BOOLEAN}
    \cup {Parent("MethodDefinition", v, FALSE, "method", loc) : v \in BOOLEAN}

\* every shape of node a listener of the rule can be called for
Shapes(loc) ==
    {[type |-> t, parent |-> p] :
        t \in {"FunctionExpression", "ArrowFunctionExpression"},
        p \in ExpressionParents(loc)}
    \cup {[type |-> "FunctionDeclaration", parent |-> Parent("Program", FALSE, FALSE, "none", loc)],
          [type |-> "ClassDeclaration", parent |-> Parent("Program", FALSE, FALSE, "none", loc)],
          [type |-> "ClassExpression", parent |-> Parent("VariableDeclarator", FALSE, FALSE, "none", loc)],
          [type |-> "MethodDefinition", parent |-> Parent("ClassBody", FALSE, FALSE, "none", loc)]}

MkNode(shape, loc, hasJsdoc, params, returns, exportedVia) ==
    [type |-> shape.type, parent |-> shape.parent, loc |-> loc, hasJsdoc |-> hasJsdoc,
     params |-> params, returns |-> returns, exportedVia |-> exportedVia]

WholeFile == LineLoc(1, Len(ExampleSource.lines))

\* every shape, documented or not
DispatchNodes ==
    {MkNode(sh, WholeFile, d, 1, FALSE, "esm") : sh \in Shapes(WholeFile), d \in BOOLEAN}

\* require objects: empty, one toggle switched on, the one default-on toggle
\* switched off, every toggle on
RequireSamples ==
    {<<>>} \cup {[k \in {key} |-> TRUE] : key \in RequireKeys}
           \cup {[k \in {"FunctionDeclaration"} |-> FALSE]}
           \cup {[k \in RequireKeys |-> TRUE]}

StringEntry(sel) == [type |-> "string", value |-> sel]
ObjectEntry(sel, inline) ==
    [type |-> "object", value |-> [context |-> sel, inlineCommentBlock |-> inline]]

ContextSamples ==
    {<<>>}
    \cup {<<StringEntry(sel)>> : sel \in BuiltIn \cup {":function", "MethodDefinition"}}
    \cup {<<ObjectEntry(sel, TRUE)>> : sel \in {":function", "FunctionExpression"}}
    \cup {<<StringEntry(":function"), ObjectEntry("ArrowFunctionExpression", FALSE)>>}

\* require and contexts vary, every other option is left out
DispatchOptions ==
    {<<>>}
    \cup {<<r @@ c>> :
            r \in {<<>>} \cup {("require" :> JsObj(o)) : o \in RequireSamples},
            c \in {<<>>} \cup {("contexts" :> cs) : cs \in ContextSamples}}

SettingsSamples == {JsFalse, JsObj([minLines |-> 0, maxLines |-> 1])}

InitRule(optionSet) ==
    /\ options \in optionSet
    /\ settings \in SettingsSamples
    /\ phase = "init"
    /\ opts = None
    /\ listeners = {}
    /\ visited = 0
    /\ cur = None
    /\ pending = <<>>
    /\ calls = <<>>
    /\ findings = <<>>
    /\ lines = ExampleSource.lines
    /\ comments = ExampleSource.comments
    /\ lineCount = None
    /\ IdleFix
    /\ IdleBlocks

Init == InitRule(DispatchOptions)

Next ==
    \/ Create
    \/ \E node \in DispatchNodes : EnterNode(node)
    \/ ContextHandler
    \/ ArrowFunctionExpression
    \/ ClassDeclaration
    \/ ClassExpression
    \/ FunctionDeclaration
    \/ FunctionExpression
    \/ Finish

Spec == Init /\ [][Next]_vars

----------------------------------------------------------------------------
(* The exemptions of checkJsDoc *)

\* nodes that reach the exemptions: undocumented, with and without parameters
\* and a return value, spanning the whole example (3 effective lines) or its
\* fourth line alone (1 effective line)
ExemptShapes(loc) ==
    {[type |-> "FunctionDeclaration", parent |-> Parent("Program", FALSE, FALSE, "none", loc)],
     [type |-> "ArrowFunctionExpression",
      parent |-> Parent("VariableDeclarator", FALSE, FALSE, "none", loc)],
     [type |-> "ArrowFunctionExpression",
      parent |-> Parent("CallExpression", FALSE, TRUE, "none", loc)],
     [type |-> "FunctionExpression",
      parent |-> Parent("CallExpression", FALSE, TRUE, "none", loc)]}
    \cup {[type |-> "FunctionExpression",
           parent |-> Parent("MethodDefinition", TRUE, FALSE, k, loc)] :
                k \in {"constructor", "method", "get", "set"}}

ClassShapes(loc) ==
    {[type |-> "ClassDeclaration", parent |-> Parent("Program", FALSE, FALSE, "none", loc)],
     [type |-> "ClassExpression",
      parent |-> Parent("VariableDeclarator", FALSE, FALSE, "none", loc)]}

ExemptNodes ==
    UNION {{MkNode(sh, loc, FALSE, p, r, "esm") :
                sh \in ExemptShapes(loc), p \in {0, 1}, r \in BOOLEAN}
           \cup {MkNode(sh, loc, FALSE, 0, FALSE, "esm") : sh \in ClassShapes(loc)} :
                loc \in {WholeFile, LineLoc(4, 4)}}

AllRequired == ("require" :> JsObj([k \in RequireKeys |-> TRUE]))

\* the scalar options, each left out or set, with and without a selector context
ExemptOptions ==
    {<<>>, << <<>> >>}
    \cup {<<a @@ b @@ c @@ d @@ e>> :
            a \in {<<>>} \cup {("exemptEmptyConstructors" :> v) : v \in BOOLEAN},
            b \in {<<>>} \cup {("exemptEmptyFunctions" :> v) : v \in BOOLEAN},
            c \in {<<>>} \cup {("minLines" :> v) : v \in {1, 3}},
            d \in {<<>>, ("contexts" :> <<StringEntry(":function")>>)},
            e \in {<<>>, AllRequired}}
    \cup {<<AllRequired @@ x>> :
            x \in {("enableFixer" :> FALSE), ("enableFixer" :> TRUE),
                   ("checkConstructors" :> FALSE), ("checkGetters" :> FALSE),
                   ("checkSetters" :> FALSE)}}

InitExempt == InitRule(ExemptOptions)

NextExempt ==
    \/ Create
    \/ \E node \in ExemptNodes : EnterNode(node)
    \/ ContextHandler
    \/ ArrowFunctionExpression
    \/ ClassDeclaration
    \/ ClassExpression
    \/ FunctionDeclaration
    \/ FunctionExpression
    \/ Finish

SpecExempt == InitExempt /\ [][NextExempt]_vars

----------------------------------------------------------------------------
(* The publicOnly gate of checkJsDoc *)

PublicNodes ==
    {MkNode(sh, WholeFile, d, 1, FALSE, via) :
        sh \in {x \in ExemptShapes(WholeFile) :
                    \/ x.parent.type \in {"Program", "VariableDeclarator"}
                    \/ x.parent.kind = "method"}
               \cup ClassShapes(WholeFile),
        d \in BOOLEAN,
        via \in {"none", "esm", "cjs", "window"}}

\* every object over the four sub-options, each left out or set
PublicOnlyObjects == UNION {[keys -> BOOLEAN] : keys \in SUBSET PublicOnlyKeys}

PublicOnlyValues == {JsBool(b) : b \in BOOLEAN} \cup {JsObj(o) : o \in PublicOnlyObjects}

PublicOptions ==
    {<<>>}
    \cup {<<a @@ e>> :
            a \in {<<>>} \cup {("publicOnly" :> v) : v \in PublicOnlyValues},
            e \in {<<>>, AllRequired}}
    \cup {<<("publicOnly" :> JsBool(TRUE)) @@ ("contexts" :> <<StringEntry(":function")>>)>>}

InitPublic == InitRule(PublicOptions)

NextPublic ==
    \/ Create
    \/ \E node \in PublicNodes : EnterNode(node)
    \/ ContextHandler
    \/ ArrowFunctionExpression
    \/ ClassDeclaration
    \/ ClassExpression
    \/ FunctionDeclaration
    \/ FunctionExpression
    \/ Finish

SpecPublic == InitPublic /\ [][NextPublic]_vars

----------------------------------------------------------------------------
(* Claims about one pass *)

Running == phase \in {"traversing", "done"} /\ Truthy(settings) /\ cur.type # "none"

FindingsOf(ordinal) == {i \in 1..Len(findings) : findings[i].node = ordinal}

\* C1: a node for which the comment-attachment resolver returns a block never
\* produces a finding, whatever the configuration and however often it is checked.
C1_AttachedNeverReported ==
    (Running /\ cur.hasJsdoc) =>
        /\ FindingsOf(visited) = {}
        /\ \A i \in 1..Len(calls) : calls[i].path = "attached"

C1_Witness ==
    /\ Running
    /\ cur.hasJsdoc
    /\ pending = <<>>
    /\ Len(calls) = 2
    /\ FindingsOf(visited) = {}

\* the positions the claim lists for a function expression or an arrow function
Positioned(node) ==
    \/ node.parent.type \in
          {"VariableDeclarator", "AssignmentExpression", "ExportDefaultDeclaration"}
    \/ /\ node.parent.type \in {"Property", "ObjectProperty", "ClassProperty"}
       /\ node.parent.valueIsNode
    \/ /\ node.type = "FunctionExpression"
       /\ node.parent.type = "MethodDefinition"
       /\ hasOption("MethodDefinition")

IsExpression(node) == node.type \in {"FunctionExpression", "ArrowFunctionExpression"}

\* a contexts entry, other than a key a built-in handler replaces, selects the node
SelectedByContext(node) == \E key \in listeners \ BuiltIn : SelectorMatches(key, node)

C6_Original ==
    Running =>
        /\ Len(calls) <= 1
        /\ \A n \in 1..visited : Cardinality(FindingsOf(n)) <= 1
        /\ \A i \in 1..(Len(findings) - 1) : findings[i].node <= findings[i + 1].node

ScalarFields == {"enableFixer", "exemptEmptyConstructors", "exemptEmptyFunctions", "minLines"}

\* C4 as stated: every field the user leaves out takes the default the schema
\* declares for it.
C4_Original ==
    (phase # "init" /\ Truthy(settings)) =>
        /\ \A f \in ScalarFields \ DOMAIN FirstOption(options) :
                opts[f] = OPTIONS_SCHEMA.properties[f].default.value
        /\ \A k \in RequireKeys :
                ~ HasPath(options, "require", k) =>
                    opts.require[k] = OPTIONS_SCHEMA.properties.require.properties[k].default

\* the sub-option the user set, or else the stated default
SubOption(key, dflt) ==
    LET user == FirstOption(options)
    IN  IF user.publicOnly.type = "object" /\ key \in DOMAIN user.publicOnly.value
        THEN user.publicOnly.value[key]
        ELSE dflt

ExpectedOpt ==
    [ancestorsOnly |-> SubOption("ancestorsOnly", FALSE),
     esm |-> SubOption("esm", TRUE),
     initModuleExports |-> SubOption("cjs", TRUE),
     initWindow |-> SubOption("window", FALSE)]

PublicOnlyConfigured ==
    /\ "publicOnly" \in DOMAIN FirstOption(options)
    /\ FirstOption(options).publicOnly.type = "object"
          \/ FirstOption(options).publicOnly.value

\* C3: with publicOnly configured, a call of checkJsDoc that gets past the attached
\* comment and the exemptions asks the export resolver with the user's sub-options,
\* each defaulted when unset (esm and cjs to true, ancestorsOnly and window to
\* false), and reports exactly when the resolver answers that the node is exported.
C3_PublicOnlyGate ==
    (Running /\ PublicOnlyConfigured) =>
        /\ \A i \in 1..Len(calls) :
              calls[i].path \in {"report", "private"} =>
                /\ calls[i].opt = ExpectedOpt
                /\ (calls[i].path = "report") <=> isUncommentedExport(cur, ExpectedOpt)
        /\ Cardinality(FindingsOf(visited)) =
              Cardinality({i \in 1..Len(calls) : calls[i].path = "report"})

C3_Witness ==
    /\ Running
    /\ PublicOnlyConfigured
    /\ FirstOption(options).publicOnly = JsBool(TRUE)
    /\ cur.exportedVia = "cjs"
    /\ pending = <<>>
    /\ Len(calls) = 1
    /\ calls[1].path = "report"
    /\ Cardinality(FindingsOf(visited)) = 1

----------------------------------------------------------------------------
(* require-jsdoc: the fixer of a reported node *)

MaxBefore == 3
MaxSettingLines == 2

\* what stands before the reduced node in the file, in order: decorators,
\* comments and other tokens; lead is the text of the line before the unit
Unit(kind, lead) == [kind |-> kind, lead |-> lead]

Leads == {<<>>, <<" ", " ">>}

UnitsBefore ==
    {Unit("decorator", l) : l \in Leads} \cup {Unit("comment", <<>>), Unit("token", <<>>)}

\* getReducedASTNode(node, sourceCode): the place of the reduced node
getReducedASTNode(node) == node.reduced

\* sourceCode.getTokenBefore(baseNode, {includeComments: true})
getTokenBefore(base) == IF base > 1 THEN base - 1 ELSE 0

\* getDecorator(tokenBefore, sourceCode): the decorator that token ends, or none
getDecorator(tokenBefore) ==
    IF tokenBefore # 0 /\ tokens[tokenBefore].kind = "decorator" THEN tokenBefore ELSE 0

\* jsdocUtils.getIndent: the leading white space of the text, and one space
RECURSIVE LeadingSpace(_)
LeadingSpace(text) ==
    IF text # <<>> /\ Head(text) \in Whitespace
    THEN <<Head(text)>> \o LeadingSpace(Tail(text))
    ELSE <<>>

getIndent(text) == LeadingSpace(text) \o <<" ">>

\* a walk that looks behind the node once
WalkBack_Once(base) ==
    IF getDecorator(getTokenBefore(base)) # 0 THEN getDecorator(getTokenBefore(base)) ELSE base

RECURSIVE WalkBack(_)
\* do { ... } while (decorator): baseNode moves to each decorator found before it
WalkBack(base) ==
    LET decorator == getDecorator(getTokenBefore(base))
    IN  IF decorator # 0 THEN WalkBack(decorator) ELSE base

\* the newline count is the configured minimum in every case
FixLines_MinOnly == settings.value.minLines

\* one line break when the minLines and maxLines settings allow it
FixLines ==
    IF settings.value.minLines = 0 /\ settings.value.maxLines >= 1
    THEN 1
    ELSE settings.value.minLines

\* contexts.find(({context: ctxt}) => ctxt === node.type) || {}, destructured:
\* a string entry has no context property and is never found
InlineCommentBlock(node) ==
    LET found == {i \in 1..Len(opts.contexts) :
                    /\ opts.contexts[i].type = "object"
                    /\ "context" \in DOMAIN opts.contexts[i].value
                    /\ opts.contexts[i].value.context = node.type}
    IN  IF found = {} THEN FALSE
        ELSE LET entry == opts.contexts[CHOOSE i \in found : \A j \in found : i <= j].value
             IN  "inlineCommentBlock" \in DOMAIN entry /\ entry.inlineCommentBlock

Insertion(node, indent) ==
    (IF InlineCommentBlock(node)
     THEN <<"/", "*", "*", " ">>
     ELSE <<"/", "*", "*", "\n">> \o indent \o <<"*", "\n">> \o indent)
    \o <<"*", "/">> \o Repeat("\n", FixLines) \o DropLast(indent)

\* fixer.insertTextBefore(nodeOrToken, text): an empty range at its start
insertTextBefore(base, text) == [range |-> <<base, base>>, text |-> text]

FixNodeTypes == {"FunctionDeclaration", "ClassDeclaration"}

FixContexts ==
    {<<>>,
     <<StringEntry("ClassDeclaration")>>,
     <<ObjectEntry("ClassDeclaration", TRUE)>>,
     <<ObjectEntry("ClassDeclaration", FALSE), ObjectEntry("ClassDeclaration", TRUE)>>,
     <<ObjectEntry("FunctionDeclaration", TRUE), ObjectEntry("ClassDeclaration", FALSE)>>,
     <<StringEntry("ClassDeclaration"), ObjectEntry("ClassDeclaration", TRUE)>>,
     <<ObjectEntry(":function", TRUE)>>,
     <<[type |-> "object", value |-> [context |-> "ClassDeclaration"]]>>}

\* a pass has just reported the undocumented node cur with the fixer enabled
InitFix ==
    /\ \E cs \in FixContexts : options = <<AllRequired @@ ("contexts" :> cs)>>
    /\ opts = getOptions(options)
    /\ listeners = ListenerKeys(options)
    /\ \E a \in 0..MaxSettingLines, b \in 0..MaxSettingLines :
            settings = JsObj([minLines |-> a, maxLines |-> b])
    /\ \E before \in Seqs(UnitsBefore, MaxBefore), t \in FixNodeTypes, l \in Leads :
            /\ tokens = Append(before, Unit("node", l))
            /\ cur = [type |-> t, reduced |-> Len(before) + 1]
            /\ findings = <<[node |-> 1, type |-> t, messageId |-> "missingJsDoc",
                             fix |-> TRUE]>>
    /\ phase = "reported"
    /\ visited = 1
    /\ pending = <<>>
    /\ calls = <<>>
    /\ baseNode = 0
    /\ edit = None
    /\ IdleSource
    /\ IdleBlocks

\* fix(fixer), the callback of the report
Fix ==
    /\ phase = "reported"
    /\ findings[1].fix
    /\ LET base == WalkBack(getReducedASTNode(cur))
           indent == getIndent(tokens[base].lead)
       IN  /\ baseNode' = base
           /\ edit' = insertTextBefore(base, Insertion(cur, indent))
    /\ phase' = "fixed"
    /\ UNCHANGED <<ruleVars, tokens, sourceVars, lineCount, blockVars>>

\* the host applies the edit: the text of the range gives way to the edit's text
ApplyFix ==
    /\ phase = "fixed"
    /\ tokens' = SubSeq(tokens, 1, edit.range[1] - 1)
                 \o <<[kind |-> "jsdoc", lead |-> <<>>, text |-> edit.text]>>
                 \o SubSeq(tokens, edit.range[2], Len(tokens))
    /\ phase' = "applied"
    /\ UNCHANGED <<ruleVars, baseNode, edit, sourceVars, lineCount, blockVars>>

NextFix == Fix \/ ApplyFix

SpecFix == InitFix /\ [][NextFix]_vars

\* the number of decorators directly before the reduced node
RECURSIVE ChainLength(_, _)
ChainLength(units, at) ==
    IF at > 1 /\ units[at - 1].kind = "decorator" THEN 1 + ChainLength(units, at - 1) ELSE 0

\* C7: with k >= 0 directly adjacent decorators before the reduced node, the walk
\* ends at the first decorator of the chain (at the node when k = 0); the edit is
\* an insertion there that deletes nothing, so the block stands before the whole
\* chain and every unit of the file is kept.
C7_DecoratorChain ==
    /\ phase = "fixed" =>
        /\ baseNode = cur.reduced - ChainLength(tokens, cur.reduced)
        /\ edit.range = <<baseNode, baseNode>>
    /\ phase = "applied" =>
        /\ Len(tokens) = cur.reduced + 1
        /\ tokens[baseNode].kind = "jsdoc"
        /\ \A i \in (baseNode + 1)..(Len(tokens) - 1) : tokens[i].kind = "decorator"
        /\ tokens[Len(tokens)].kind = "node"
        /\ baseNode > 1 => tokens[baseNode - 1].kind # "decorator"
        /\ Cardinality({i \in 1..Len(tokens) : tokens[i].kind = "jsdoc"}) = 1

C7_Witness ==
    /\ phase = "applied"
    /\ Len(tokens) = 5
    /\ tokens[1].kind = "token"
    /\ tokens[2].kind = "jsdoc"
    /\ tokens[3].kind = "decorator"
    /\ tokens[4].kind = "decorator"
    /\ tokens[5].kind = "node"

\* the first contexts entry that is an object naming the node's type
MatchedEntries ==
    {i \in 1..Len(FirstOption(options).contexts) :
        LET entry == FirstOption(options).contexts[i]
        IN  entry.type = "object" /\ entry.value.context = cur.type}

MatchedInline ==
    /\ MatchedEntries # {}
    /\ LET first == FirstOption(options).contexts[
                        CHOOSE i \in MatchedEntries : \A j \in MatchedEntries : i <= j].value
       IN "inlineCommentBlock" \in DOMAIN first /\ first.inlineCommentBlock

ExpectedNewlines ==
    IF settings.value.minLines = 0 /\ settings.value.maxLines >= 1
    THEN 1
    ELSE settings.value.minLines

\* C8: the inserted text is "/** */" and the suffix when the contexts entry found
\* for the node's type sets inlineCommentBlock, the three-line skeleton and the
\* suffix otherwise; the suffix is L newlines and the indent less its last
\* character, L being 1 when settings.minLines is 0 and settings.maxLines >= 1 and
\* settings.minLines otherwise.
C8_InsertedText ==
    phase = "fixed" =>
        LET indent == getIndent(tokens[baseNode].lead)
            suffix == [i \in 1..ExpectedNewlines |-> "\n"]
                      \o SubSeq(indent, 1, Len(indent) - 1)
        IN  edit.text =
                (IF MatchedInline
                 THEN <<"/", "*", "*", " ", "*", "/">>
                 ELSE <<"/", "*", "*", "\n">> \o indent \o <<"*", "\n">>
                      \o indent \o <<"*", "/">>)
                \o suffix

C8_Witness ==
    /\ phase = "fixed"
    /\ MatchedInline
    /\ settings.value.minLines = 0
    /\ settings.value.maxLines = 2
    /\ edit.text = <<"/", "*", "*", " ", "*", "/", "\n", " ", " ">>

----------------------------------------------------------------------------
(* no-bad-blocks *)

MaxBody == 5

\* the characters of a comment body; i and p abbreviate the tag names ts-ignore
\* and param
BodyChars == {"*", "@", "i", "p", "/", "\n"}

TagName(word) ==
    IF word = <<"i">> THEN "ts-ignore" ELSE IF word = <<"p">> THEN "param" ELSE "other"

DefaultIgnore == {"ts-check", "ts-expect-error", "ts-ignore", "ts-nocheck"}

\* text at 1-based position i starts with the characters of pat
StartsAt(text, i, pat) ==
    /\ i + Len(pat) - 1 <= Len(text)
    /\ \A k \in 1..Len(pat) : text[i + k - 1] = pat[k]

\* a pattern that also accepts a third asterisk
commentRegexp_NoLookahead(text) == StartsAt(text, 1, <<"/", "*">>)

\* /^\/\*(?!\*)/.test(text)
commentRegexp(text) ==
    StartsAt(text, 1, <<"/", "*">>) /\ ~ StartsAt(text, 3, <<"*">>)

RECURSIVE SplitLines(_)
SplitLines(text) ==
    IF \A i \in 1..Len(text) : text[i] # "\n" THEN <<text>>
    ELSE LET at == CHOOSE i \in 1..Len(text) :
                        text[i] = "\n" /\ \A j \in 1..(i - 1) : text[j] # "\n"
         IN  <<SubSeq(text, 1, at - 1)>> \o SplitLines(SubSeq(text, at + 1, Len(text)))

RECURSIVE StripStars(_)
StripStars(line) ==
    IF line # <<>> /\ Head(line) = "*" THEN StripStars(Tail(line)) ELSE line

\* commentParser(text)[0].tags, as names: the block between the opening and
\* the closing delimiter, a tag for every line that starts with @ after its asterisks
commentParser(text) ==
    LET inner == SubSeq(text, 4, Len(text) - 2)
        ls == [i \in DOMAIN SplitLines(inner) |-> StripStars(SplitLines(inner)[i])]
        tagLines == SelectSeq(ls, LAMBDA l : Len(l) >= 2 /\ Head(l) = "@")
    IN  [i \in DOMAIN tagLines |-> TagName(Tail(tagLines[i]))]

\* the comments the rule reports
IsNonJsdoc(text) ==
    IF ~ commentRegexp(text) THEN FALSE
    ELSE LET tags == commentParser(Slice(text, 0, 2) \o <<"*">> \o SliceFrom(text, 2))
         IN  Len(tags) # 0 /\ ~ \E i \in 1..Len(tags) : tags[i] \in ignore

RECURSIVE IndexOf(_, _, _)
\* String.prototype.indexOf(pat, from - 1) + 1, 0 when there is none
IndexOf(text, pat, from) ==
    IF from + Len(pat) - 1 > Len(text) THEN 0
    ELSE IF StartsAt(text, from, pat) THEN from
    ELSE IndexOf(text, pat, from + 1)

\* text.replace(pat, by): the first occurrence gives way
Replace(text, pat, by) ==
    LET at == IndexOf(text, pat, 1)
    IN  IF at = 0 THEN text
        ELSE SubSeq(text, 1, at - 1) \o by \o SubSeq(text, at + Len(pat), Len(text))

\* fix: fixer.replaceText(node, text.replace('/*', '/**'))
BlockFix(text) == Replace(text, <<"/", "*">>, <<"/", "*", "*">>)

\* the bodies a block comment can have: its first * / closes it
Bodies ==
    {b \in Seqs(BodyChars, MaxBody) : IndexOf(b \o <<"*", "/">>, <<"*", "/">>, 1) = Len(b) + 1}

BlockComment(body) == <<"/", "*">> \o body \o <<"*", "/">>
LineComment(body) == <<"/", "/">> \o body

Files ==
    {<<BlockComment(b)>> : b \in Bodies}
    \cup {<<LineComment(<<"@", "p">>), BlockComment(<<"@", "p">>)>>,
          <<BlockComment(<<"@", "p">>), BlockComment(<<"@", "i">>)>>}

InitBlocks ==
    /\ commentTexts \in Files
    /\ ignore \in {DefaultIgnore, {"param"}}
    /\ reports = <<>>
    /\ fixedComment = 0
    /\ phase = "init"
    /\ IdleRule
    /\ IdleSource
    /\ IdleFix

\* the rule body: one report, with its fix, for every comment that is no JSDoc
\* block but reads like one
RunBlocks ==
    /\ phase \in {"init", "fixed"}
    /\ reports' = LET all == [i \in 1..Len(commentTexts) |->
                                [comment |-> i, text |-> commentTexts[i],
                                 fix |-> BlockFix(commentTexts[i])]]
                  IN  SelectSeq(all, LAMBDA r : IsNonJsdoc(r.text))
    /\ phase' = IF phase = "init" THEN "reported" ELSE "rerun"
    /\ UNCHANGED <<commentTexts, ignore, fixedComment>>
    /\ UNCHANGED <<ruleVars, sourceVars, lineCount, fixVars>>

\* the host applies the fix of one report
ApplyBlockFix(r) ==
    /\ phase = "reported"
    /\ r \in 1..Len(reports)
    /\ commentTexts' = [commentTexts EXCEPT ![reports[r].comment] = reports[r].fix]
    /\ fixedComment' = reports[r].comment
    /\ phase' = "fixed"
    /\ UNCHANGED <<ignore, reports>>
    /\ UNCHANGED <<ruleVars, sourceVars, lineCount, fixVars>>

NextBlocks == RunBlocks \/ \E r \in 1..Len(commentTexts) : ApplyBlockFix(r)

SpecBlocks == InitBlocks /\ [][NextBlocks]_vars

Reported == {reports[r].comment : r \in 1..Len(reports)}

\* the comment reads like a JSDoc block with a single asterisk: it opens with
\* slash-asterisk and no third asterisk, and a line of it starts with @
LooksLikeJsdoc(text) ==
    /\ Len(text) >= 2 /\ text[1] = "/" /\ text[2] = "*"
    /\ ~ (Len(text) >= 3 /\ text[3] = "*")
    /\ commentParser(<<"/", "*", "*">> \o SubSeq(text, 3, Len(text))) # <<>>
    /\ \A t \in {commentParser(<<"/", "*", "*">> \o SubSeq(text, 3, Len(text)))[i] :
                    i \in 1..Len(commentParser(<<"/", "*", "*">> \o SubSeq(text, 3, Len(text))))} :
            t \notin ignore

\* C10: a comment is reported exactly when it opens with slash-asterisk and no
\* third asterisk, parses to at least one tag and has no tag of the ignore list;
\* the fix only adds an asterisk to the opening, and the rule run again on the
\* fixed comment does not report it.
C10_BadBlocks ==
    /\ phase = "reported" =>
        /\ Reported = {i \in 1..Len(commentTexts) : LooksLikeJsdoc(commentTexts[i])}
        /\ \A r \in 1..Len(reports) :
              reports[r].fix = <<"/", "*", "*">> \o SubSeq(reports[r].text, 3, Len(reports[r].text))
    /\ phase \in {"fixed", "rerun"} =>
        StartsAt(commentTexts[fixedComment], 1, <<"/", "*", "*">>)
    /\ phase = "rerun" => fixedComment \notin Reported

C10_Witness ==
    /\ phase = "rerun"
    /\ fixedComment = 1
    /\ commentTexts[1] = <<"/", "*", "*", "@", "p", "\n", "/", "*", "/">>
    /\ reports = <<>>

====
